---- MODULE Spec2Model ----
(***************************************************************************)
(* A model of duckai.DuckAI (src/content/duckai/duckai.py): the session    *)
(* state of one client, the generator chat_yield with the requests it      *)
(* issues through _get_url, and the parsing of the streamed chat body.     *)
(*                                                                         *)
(* Byte strings of the body are sequences of atoms (strings); a chunk is   *)
(* one such sequence.  Opaque tokens and texts are strings.                *)
(*                                                                         *)
(* Spec:      one client, its turns, the body in arbitrary chunks.         *)
(* SpecMulti: a second instance of the process in lines 142-152, which     *)
(*            share the class attribute DuckAI._chat_xfe.                  *)
(* SpecCli:   cli.chat, a client that takes its state from the cache.      *)
(* SpecWire:  one turn whose body the server fixes and the transport       *)
(*            divides into chunks, also inside an atom.                    *)
(***************************************************************************)
EXTENDS Integers, Sequences, FiniteSets, TLC

(* ------------------------------ bounds --------------------------------- *)

\* turns started on the session
MaxTurns == 2
\* chunks the server delivers over the whole session
MaxChunks == 3
\* atoms in one chunk
MaxChunkLen == 2

(* ------------------------------ inputs --------------------------------- *)

\* keywords passed to chat_yield: len 0 and len 8
UserTexts == {"", "12345678"}

\* model passed to chat_yield: two catalog ids and one unknown id
ModelArgs == {"gpt-4o-mini", "llama-3.3-70b", "gpt-5"}

\* status codes a response can carry
Statuses == {200, 202, 301, 400, 403, 418, 429, 404, 500}

\* messages of the exceptions client.request can raise
TransportErrors == {"operation timed out", "connection refused"}

\* a test that finds the indicator in no message
ContainsTime_Never(msg) == FALSE

\* "time" in str(ex).lower()
ContainsTime(msg) == msg = "operation timed out"

\* what client.request does: raise (fail # "") or return a status
Outcomes ==
  [fail : TransportErrors, status : {0}] \cup [fail : {""}, status : Statuses]

\* landing pages: the text after each of the two markers ("absent": the
\* page lacks the marker)
Pages == [be : {"absent", "1.0"}, fe : {"absent", "abc"}]

\* the headers of an answer that carries neither x-vqd-4 nor x-vqd-hash-1
NoHeaders == [k \in {} |-> ""]

\* the headers of an answer that carries both
TokenHeaders(vqd, hash) ==
  [k \in {"x-vqd-4", "x-vqd-hash-1"} |-> IF k = "x-vqd-4" THEN vqd ELSE hash]

\* headers of a 200 answer of the status endpoint: both headers or neither
StatusHeaders == {NoHeaders, TokenHeaders("v0", "h0")}

\* headers of a 200 answer of the chat endpoint: both headers or neither
ChatHeaders == {NoHeaders, TokenHeaders("v1", "h1")}

\* a lookup that never finds the header
HeadersGet_Default(h, key, default) == default

\* resp.headers.get(key, default)
HeadersGet(h, key, default) == IF key \in DOMAIN h THEN h[key] ELSE default

(* --------------------------- the body's atoms -------------------------- *)

DELIM == "data:"
WS == " "
DONE == "[DONE]"
LIMIT_SUFFIX == "[LIMIT_CONVERSATION]"

\* JSON texts and the value json_loads gives for each; a key the object
\* lacks reads as "" (status: 0), which is what x.get() makes of it below
Events ==
  [ev \in {"{message:Hel}", "{message:lo}", "{message:}", "{error:429,LIMIT}",
           "{error:429,RATE}", "{error:500,X}", "[]"} |->
     CASE ev = "{message:Hel}" ->
            [dict |-> TRUE, action |-> "", status |-> 0, type |-> "", message |-> "Hel"]
       [] ev = "{message:lo}" ->
            [dict |-> TRUE, action |-> "", status |-> 0, type |-> "", message |-> "lo"]
       [] ev = "{message:}" ->
            [dict |-> TRUE, action |-> "", status |-> 0, type |-> "", message |-> ""]
       [] ev = "{error:429,LIMIT}" ->
            [dict |-> TRUE, action |-> "error", status |-> 429,
             type |-> "ERR_CONVERSATION_LIMIT", message |-> ""]
       [] ev = "{error:429,RATE}" ->
            [dict |-> TRUE, action |-> "error", status |-> 429,
             type |-> "ERR_RATE", message |-> ""]
       [] ev = "{error:500,X}" ->
            [dict |-> TRUE, action |-> "error", status |-> 500,
             type |-> "ERR_X", message |-> ""]
       [] OTHER ->
            [dict |-> FALSE, action |-> "", status |-> 0, type |-> "", message |-> ""] ]

\* a text that is no JSON
JUNK == "{"

Atoms == {DELIM, WS, DONE, LIMIT_SUFFIX, JUNK} \cup DOMAIN Events

Chunks == UNION { [1..n -> Atoms] : n \in 1..MaxChunkLen }

(* ------------------------------ helpers -------------------------------- *)

Max(a, b) == IF a >= b THEN a ELSE b

\* "".join(chunks)
RECURSIVE Join(_)
Join(s) == IF s = <<>> THEN "" ELSE Head(s) \o Join(Tail(s))

\* a split that takes the text before the first "data:" for a preamble
Split_DropFirst(c) ==
  LET RECURSIVE S(_)
      S(t) == IF t = <<>> THEN << <<>> >>
              ELSE IF Head(t) = DELIM THEN << <<>> >> \o S(Tail(t))
              ELSE LET r == S(Tail(t)) IN << <<Head(t)>> \o Head(r) >> \o Tail(r)
  IN Tail(S(c))

\* chunk.split(b"data:")
RECURSIVE Split(_)
Split(c) ==
  IF c = <<>> THEN << <<>> >>
  ELSE IF Head(c) = DELIM THEN << <<>> >> \o Split(Tail(c))
  ELSE LET r == Split(Tail(c)) IN << <<Head(c)>> \o Head(r) >> \o Tail(r)

RECURSIVE LStrip(_)
LStrip(s) == IF s # <<>> /\ Head(s) = WS THEN LStrip(Tail(s)) ELSE s

RECURSIVE RStrip(_)
RStrip(s) ==
  IF s # <<>> /\ s[Len(s)] = WS THEN RStrip(SubSeq(s, 1, Len(s) - 1)) ELSE s

\* line.strip()
Strip(s) == RStrip(LStrip(s))

\* json_loads(line): does the text parse
JsonValid(line) == Len(line) = 1 /\ line[1] \in DOMAIN Events

\* json_loads(line): the value
json_loads(line) == Events[line[1]]

\* the names of a header set as one text, in a fixed order
HeadersText(headers) ==
  LET Name(k) == IF k \in headers THEN k \o ";" ELSE ""
  IN Name("user-agent") \o Name("x-fe-version") \o Name("x-vqd-4")
       \o Name("x-vqd-hash-1")

\* HashBuilder.build_hash(vqd_hash, headers): opaque and deterministic
build_hash(prev, headers) == "H(" \o prev \o "," \o HeadersText(headers) \o ")"

\* self.client.headers: the names of the headers the client sends with
\* every request
ClientHeaders == {"user-agent"}

\* the names of the headers of the chat POST: those of the client and the
\* three passed with the request
PostHeaders == ClientHeaders \cup {"x-fe-version", "x-vqd-4", "x-vqd-hash-1"}

\* a hash sent on as it is
DeriveHash_Keep(h) == h

\* line 162: build_hash(self._chat_vqd_hash, self.client.headers)
DeriveHash(h) == build_hash(h, ClientHeaders)

(* ----------------------------- exceptions ------------------------------ *)

\* kind: the class of the exception; detail: what its message carries;
\* cause: the class of the exception it was raised from ("" = none);
\* at: the statement that raised it, or raised its cause (its traceback),
\* and event: the event the loop was handling there ("" = none)
NoErr == [kind |-> "", detail |-> "", cause |-> "", at |-> "", event |-> ""]

\* raise Kind(detail) [from cause]
Raise(kind, detail, cause, at) ==
  [kind |-> kind, detail |-> detail, cause |-> cause, at |-> at, event |-> ""]

\* class hierarchy of exceptions.py: is kind the class base or a subclass of it
IsA(kind, base) ==
  \/ kind = base
  \/ /\ base = "DuckAIException"
     /\ kind \in {"RatelimitException", "TimeoutException", "ConversationLimitException"}

\* except Exception as ex:
\*     raise DuckAIException(f"chat_yield() {type(ex).__name__}: {ex}") from ex
WrapStreamError(kind, detail, at, ev) ==
  [Raise("DuckAIException", detail, kind, at) EXCEPT !.event = ev]

\* a classifier that returns the response on 202 as well
get_url_error_Accept202(o) ==
  IF o.fail # ""
  THEN IF ContainsTime(o.fail) THEN "TimeoutException" ELSE "DuckAIException"
  ELSE IF o.status \in {200, 202} THEN ""
  ELSE IF o.status \in {301, 403, 400, 429, 418} THEN "RatelimitException"
  ELSE "DuckAIException"

\* a classifier whose tuple of blocking statuses lacks 429
get_url_error_No429(o) ==
  IF o.fail # ""
  THEN IF ContainsTime(o.fail) THEN "TimeoutException" ELSE "DuckAIException"
  ELSE IF o.status = 200 THEN ""
  ELSE IF o.status \in {202, 301, 403, 400, 418} THEN "RatelimitException"
  ELSE "DuckAIException"

\* what _get_url does with the outcome o of client.request: "" = return resp
get_url_error(o) ==
  IF o.fail # ""
  THEN IF ContainsTime(o.fail) THEN "TimeoutException" ELSE "DuckAIException"
  ELSE IF o.status = 200 THEN ""
  ELSE IF o.status \in {202, 301, 403, 400, 429, 418} THEN "RatelimitException"
  ELSE "DuckAIException"

\* The body read so far in the current turn, as the server sent it: its
\* form is "closed" when it is message events, each after a "data:", and
\* then "data:" [DONE]; "open" and "between" are the prefixes of such a body
\* (after a "data:", after an event); messages: the non-empty message fields
\* of its events, in order.
NoBody == [form |-> "between", messages |-> <<>>]
OtherBody == [form |-> "other", messages |-> <<>>]

IsMessageEvent(a) ==
  a \in DOMAIN Events /\ Events[a].dict /\ Events[a].action # "error"

BodyAtom(b, a) ==
  IF a = WS THEN b
  ELSE IF b.form = "between"
    THEN IF a = DELIM THEN [b EXCEPT !.form = "open"] ELSE OtherBody
  ELSE IF b.form = "open"
    THEN IF a = DELIM THEN b
         ELSE IF a = DONE THEN [b EXCEPT !.form = "closed"]
         ELSE IF IsMessageEvent(a)
           THEN [form |-> "between",
                 messages |-> IF Events[a].message # ""
                              THEN Append(b.messages, Events[a].message)
                              ELSE b.messages]
         ELSE OtherBody
  ELSE OtherBody

RECURSIVE BodyChunk(_, _)
BodyChunk(b, c) == IF c = <<>> THEN b ELSE BodyChunk(BodyAtom(b, Head(c)), Tail(c))

(* ------------------------------- state --------------------------------- *)

VARIABLES
  chat_xfe,           \* DuckAI._chat_xfe (class attribute)
  chat_vqd,           \* self._chat_vqd
  chat_vqd_hash,      \* self._chat_vqd_hash
  chat_messages,      \* self._chat_messages
  chat_tokens_count,  \* self._chat_tokens_count
  pc,                 \* where the generator of the current turn stands
  keywords,           \* argument of the current turn
  model,              \* argument of the current turn (as resolved, after POST)
  lines,              \* segments of the current chunk not yet looked at
  chunks,             \* the generator's local list of fragments
  err,                \* the exception that reached the caller
  reqs,               \* requests issued in the current turn, in order
  resp,               \* outcome and headers of the last request
  yielded,            \* fragments the consumer received in the current turn
  warned,             \* warnings.warn was called in the current turn
  nread,              \* chunks read from resp.stream() in the current turn
  body,               \* the form of the body read in the current turn
  pre,                \* session state when the current turn started
  turns,              \* turns started
  nchunks,            \* chunks delivered over the session
  pc2,                \* where a second instance stands in lines 142-152
  xfe_writes,         \* assignments to DuckAI._chat_xfe so far
  loaded,             \* the client got its state from the cache file and
                      \* has started no second turn since
  answer              \* the body of the chat answer and what is left to send

vars == <<chat_xfe, chat_vqd, chat_vqd_hash, chat_messages, chat_tokens_count,
          pc, keywords, model, lines, chunks, err, reqs, resp, yielded, warned,
          nread, body, pre, turns, nchunks, pc2, xfe_writes, loaded, answer>>

\* what lies outside the one client and its generator
process == <<pc2, loaded, answer>>

session == <<chat_xfe, chat_vqd, chat_vqd_hash, chat_messages, chat_tokens_count>>

\* DuckAI._chat_models
chat_models ==
  [m \in {"gpt-4o-mini", "llama-3.3-70b", "claude-3-haiku", "o3-mini", "mistral-small-3"} |->
     CASE m = "gpt-4o-mini" -> "gpt-4o-mini"
       [] m = "llama-3.3-70b" -> "meta-llama/Llama-3.3-70B-Instruct-Turbo"
       [] m = "claude-3-haiku" -> "claude-3-haiku-20240307"
       [] m = "o3-mini" -> "o3-mini"
       [] OTHER -> "mistralai/Mistral-Small-24B-Instruct-2501"]

NoReq == [url |-> "", xfe |-> "", vqd |-> "", hash |-> "", model |-> "", messages |-> <<>>]
LandingReq == [NoReq EXCEPT !.url = "landing"]
StatusReq == [NoReq EXCEPT !.url = "status"]
ChatReq(xfe, vqd, hash, m, msgs) ==
  [url |-> "chat", xfe |-> xfe, vqd |-> vqd, hash |-> hash, model |-> m, messages |-> msgs]

NoResp == [fail |-> "", status |-> 0, headers |-> NoHeaders]
RespOf(o, h) == [fail |-> o.fail, status |-> o.status, headers |-> h]

\* no body fixed for the answer of the current turn
NoAnswer == [set |-> FALSE, whole |-> <<>>, rest |-> <<>>]

AtRest == pc \in {"idle", "done", "failed", "closed"}

\* DuckAI.__init__
Init ==
  /\ chat_xfe = ""
  /\ chat_vqd = ""
  /\ chat_vqd_hash = ""
  /\ chat_messages = <<>>
  /\ chat_tokens_count = 0
  /\ pc = "idle"
  /\ keywords = ""
  /\ model = ""
  /\ lines = <<>>
  /\ chunks = <<>>
  /\ err = NoErr
  /\ reqs = <<>>
  /\ resp = NoResp
  /\ yielded = <<>>
  /\ warned = FALSE
  /\ nread = 0
  /\ body = NoBody
  /\ pre = [messages |-> <<>>, tokens |-> 0, xfe |-> "", vqd |-> "", hash |-> ""]
  /\ turns = 0
  /\ nchunks = 0
  /\ pc2 = "idle"
  /\ xfe_writes = 0
  /\ loaded = FALSE
  /\ answer = NoAnswer

\* the exception e leaves the generator
Fail(e) ==
  /\ pc' = "failed"
  /\ err' = e

\* _get_url raised for the outcome o
GetUrlRaise(o) ==
  Fail(Raise(get_url_error(o), "", IF o.fail # "" THEN "TransportError" ELSE "",
             "_get_url"))

\* a count of characters
UserTokens_Chars(u) == Max(Len(u), 1)

\* a count without the floor of 1
UserTokens_NoFloor(u) == Len(u) \div 4

\* max(len(keywords) // 4, 1)
UserTokens(u) == Max(Len(u) \div 4, 1)

\* xfe1, xfe2 of the page, f"{xfe1}-{xfe2}"; "" when split()[1] raises IndexError
ParseXfe(page) ==
  IF page.be = "absent" \/ page.fe = "absent" THEN "" ELSE page.be \o "-" \o page.fe

\* lines 197-210: what the loop does with the parsed event x
Dispatch(x) ==
  IF ~x.dict THEN [k |-> "skip", msg |-> "", kind |-> ""]
  ELSE IF x.action = "error"
    THEN [k |-> "raise", msg |-> x.type,
          kind |-> IF x.status = 429
                   THEN IF x.type = "ERR_CONVERSATION_LIMIT"
                        THEN "ConversationLimitException"
                        ELSE "RatelimitException"
                   ELSE "DuckAIException"]
  ELSE IF x.message # "" THEN [k |-> "yield", msg |-> x.message, kind |-> ""]
  ELSE [k |-> "skip", msg |-> "", kind |-> ""]

\* lines 190-210: the inner for loop over the segments ls, up to the first
\* yield or raise, or to the end of the loop (k = "next": the outer loop asks
\* for the next chunk).  at: the statement that raised, rest: the segments
\* the loop still holds
RECURSIVE RunLines(_)
RunLines(ls) ==
  IF ls = <<>>
  THEN [k |-> "next", msg |-> "", kind |-> "", at |-> "", event |-> "",
        rest |-> <<>>]
  ELSE
    LET line == Strip(Head(ls)) IN
    IF line = <<>> THEN RunLines(Tail(ls))
    ELSE IF line = <<DONE>>
      THEN [k |-> "next", msg |-> "", kind |-> "", at |-> "", event |-> "",
            rest |-> <<>>]
    ELSE IF line = <<DONE, LIMIT_SUFFIX>>
      THEN [k |-> "raise", msg |-> "ERR_CONVERSATION_LIMIT",
            kind |-> "ConversationLimitException", at |-> "sentinel",
            event |-> "", rest |-> <<>>]
    ELSE IF ~JsonValid(line)
      THEN [k |-> "raise", msg |-> "", kind |-> "JSONDecodeError",
            at |-> "json_loads", event |-> "", rest |-> <<>>]
    ELSE
      LET d == Dispatch(json_loads(line)) IN
      IF d.k = "skip" THEN RunLines(Tail(ls))
      ELSE [k |-> d.k, msg |-> d.msg, kind |-> d.kind,
            at |-> IF d.k = "raise" THEN "event" ELSE "",
            event |-> IF d.k = "raise" THEN line[1] ELSE "",
            rest |-> IF d.k = "yield" THEN Tail(ls) ELSE <<>>]

\* the generator runs on over the segments ls until it yields, raises or
\* needs the next chunk
Resume(ls) ==
  LET r == RunLines(ls) IN
  /\ lines' = r.rest
  /\ IF r.k = "yield"
     THEN /\ chunks' = Append(chunks, r.msg)
          /\ chat_tokens_count' = chat_tokens_count + 1
          /\ yielded' = Append(yielded, r.msg)
          /\ pc' = "suspended"
          /\ err' = err
     ELSE /\ UNCHANGED <<chunks, chat_tokens_count, yielded>>
          /\ IF r.k = "raise"
             THEN Fail(WrapStreamError(r.kind, r.msg, r.at, r.event))
             ELSE pc' = "stream" /\ err' = err

(* ------------------------------ actions -------------------------------- *)

\* chat_yield(u, m) is called and the consumer pulls for the first time
SendTurn(u, m) ==
  /\ AtRest
  /\ turns < MaxTurns
  /\ pc' = "xfe"
  /\ keywords' = u
  /\ model' = m
  /\ lines' = <<>>
  /\ chunks' = <<>>
  /\ err' = NoErr
  /\ reqs' = <<>>
  /\ resp' = NoResp
  /\ yielded' = <<>>
  /\ warned' = FALSE
  /\ nread' = 0
  /\ body' = NoBody
  /\ pre' = [messages |-> chat_messages, tokens |-> chat_tokens_count,
             xfe |-> chat_xfe, vqd |-> chat_vqd, hash |-> chat_vqd_hash]
  /\ turns' = turns + 1
  /\ answer' = NoAnswer
  /\ loaded' = (loaded /\ pc = "idle")
  /\ UNCHANGED <<session, nchunks, pc2, xfe_writes>>

\* a landing page fetched on every turn
NeedXfe_Always == TRUE

\* if not DuckAI._chat_xfe
NeedXfe == chat_xfe = ""

\* if not self._chat_vqd
NeedVqd == chat_vqd = ""

\* "# x-fe-version": nothing to do, DuckAI._chat_xfe is set
XfeCached ==
  /\ pc = "xfe"
  /\ ~NeedXfe
  /\ pc' = "vqd"
  /\ UNCHANGED <<session, keywords, model, lines, chunks, err, reqs, resp,
                 yielded, warned, nread, body, pre, turns, nchunks>>
  /\ UNCHANGED <<process, xfe_writes>>

\* "# x-fe-version": GET the landing page and read the two markers
XfeFetch ==
  /\ pc = "xfe"
  /\ NeedXfe
  /\ reqs' = Append(reqs, LandingReq)
  /\ \E o \in Outcomes :
       /\ resp' = RespOf(o, NoHeaders)
       /\ IF get_url_error(o) # ""
          THEN GetUrlRaise(o) /\ UNCHANGED <<chat_xfe, xfe_writes>>
          ELSE \E page \in Pages :
                 IF ParseXfe(page) = ""
                 THEN /\ Fail(Raise("DuckAIException", "Error to get _chat_xfe", "IndexError",
                                 "markers"))
                      /\ UNCHANGED <<chat_xfe, xfe_writes>>
                 ELSE /\ chat_xfe' = ParseXfe(page)
                      /\ xfe_writes' = xfe_writes + 1
                      /\ pc' = "vqd"
                      /\ err' = err
  /\ UNCHANGED <<chat_vqd, chat_vqd_hash, chat_messages, chat_tokens_count,
                 keywords, model, lines, chunks, yielded, warned, nread, body, pre, turns, nchunks>>
  /\ UNCHANGED process

\* "# vqd": nothing to do, self._chat_vqd is set
VqdCached ==
  /\ pc = "vqd"
  /\ ~NeedVqd
  /\ pc' = "post"
  /\ UNCHANGED <<session, keywords, model, lines, chunks, err, reqs, resp,
                 yielded, warned, nread, body, pre, turns, nchunks>>
  /\ UNCHANGED <<process, xfe_writes>>

\* "# vqd": GET the status endpoint and read the two headers
VqdFetch ==
  /\ pc = "vqd"
  /\ NeedVqd
  /\ reqs' = Append(reqs, StatusReq)
  /\ \E o \in Outcomes :
       IF get_url_error(o) # ""
       THEN /\ GetUrlRaise(o)
            /\ resp' = RespOf(o, NoHeaders)
            /\ UNCHANGED <<chat_vqd, chat_vqd_hash>>
       ELSE \E h \in StatusHeaders :
              /\ resp' = RespOf(o, h)
              /\ chat_vqd' = HeadersGet(h, "x-vqd-4", "")
              /\ chat_vqd_hash' = HeadersGet(h, "x-vqd-hash-1", "")
              /\ pc' = "post"
              /\ err' = err
  /\ UNCHANGED <<chat_xfe, chat_messages, chat_tokens_count, keywords, model,
                 lines, chunks, yielded, warned, nread, body, pre, turns,
                 nchunks>>
  /\ UNCHANGED <<process, xfe_writes>>

\* the user message goes into a copy that is sent, not into the history
AppendUser_Copy(msgs, u) == msgs

\* self._chat_messages.append({"role": "user", "content": keywords})
AppendUser(msgs, u) == Append(msgs, [role |-> "user", content |-> u])

\* self._chat_messages.append({"role": "assistant", "content": result})
AppendAssistant(msgs, parts) ==
  Append(msgs, [role |-> "assistant", content |-> Join(parts)])

\* a fallback to another entry of the catalog
ResolveModel_O3(m) == IF m \in DOMAIN chat_models THEN m ELSE "o3-mini"

\* the model sent: self._chat_models[model] after the fallback
ResolveModel(m) == IF m \in DOMAIN chat_models THEN m ELSE "gpt-4o-mini"

\* lines 161-186: derive the hash, append the user message, count its
\* tokens, resolve the model, POST, and take the rotated headers
Post ==
  /\ pc = "post"
  /\ LET hash == DeriveHash(chat_vqd_hash)
         msgs == AppendUser(chat_messages, keywords)
         m == ResolveModel(model)
     IN /\ chat_messages' = msgs
        /\ chat_tokens_count' = chat_tokens_count + UserTokens(keywords)
        /\ warned' = (model \notin DOMAIN chat_models)
        /\ model' = m
        /\ reqs' = Append(reqs, ChatReq(chat_xfe, chat_vqd, hash, chat_models[m], msgs))
        /\ \E o \in Outcomes :
             IF get_url_error(o) # ""
             THEN /\ GetUrlRaise(o)
                  /\ resp' = RespOf(o, NoHeaders)
                  /\ chat_vqd' = chat_vqd
                  /\ chat_vqd_hash' = hash
             ELSE \E h \in ChatHeaders :
                    /\ resp' = RespOf(o, h)
                    /\ chat_vqd' = HeadersGet(h, "x-vqd-4", "")
                    /\ chat_vqd_hash' = HeadersGet(h, "x-vqd-hash-1", "")
                    /\ pc' = "stream"
                    /\ err' = err
  /\ chunks' = <<>>
  /\ UNCHANGED <<chat_xfe, keywords, lines, yielded, nread, body, pre,
                 turns, nchunks>>
  /\ UNCHANGED <<process, xfe_writes>>

\* resp.stream() hands over the chunk c
ReadChunk(c) ==
  /\ pc = "stream"
  /\ nchunks < MaxChunks
  /\ nchunks' = nchunks + 1
  /\ nread' = nread + 1
  /\ body' = BodyChunk(body, c)
  /\ Resume(Split(c))
  /\ UNCHANGED <<chat_xfe, chat_vqd, chat_vqd_hash, chat_messages, keywords,
                 model, reqs, resp, warned, pre, turns>>
  /\ UNCHANGED <<process, xfe_writes>>

\* resp.stream() raises
StreamError ==
  /\ pc = "stream"
  /\ Fail(WrapStreamError("TransportError", "", "stream", ""))
  /\ UNCHANGED <<session, keywords, model, lines, chunks, reqs, resp, yielded,
                 warned, nread, body, pre, turns, nchunks>>
  /\ UNCHANGED <<process, xfe_writes>>

\* an assistant entry recorded only for a non-empty reply
StreamEnd_IfResult ==
  /\ pc = "stream"
  /\ chat_messages' = IF chunks = <<>> THEN chat_messages
                      ELSE Append(chat_messages,
                                  [role |-> "assistant", content |-> Join(chunks)])
  /\ pc' = "done"
  /\ UNCHANGED <<chat_xfe, chat_vqd, chat_vqd_hash, chat_tokens_count, keywords,
                 model, lines, chunks, err, reqs, resp, yielded, warned, nread,
                 body, pre, turns, nchunks>>
  /\ UNCHANGED <<process, xfe_writes>>

\* resp.stream() is exhausted: lines 214-215
StreamEnd ==
  /\ pc = "stream"
  /\ chat_messages' = AppendAssistant(chat_messages, chunks)
  /\ pc' = "done"
  /\ UNCHANGED <<chat_xfe, chat_vqd, chat_vqd_hash, chat_tokens_count, keywords,
                 model, lines, chunks, err, reqs, resp, yielded, warned, nread,
                 body, pre, turns, nchunks>>
  /\ UNCHANGED <<process, xfe_writes>>

\* the consumer pulls again: the generator goes on after the yield
Pull ==
  /\ pc = "suspended"
  /\ Resume(lines)
  /\ UNCHANGED <<chat_xfe, chat_vqd, chat_vqd_hash, chat_messages, keywords,
                 model, reqs, resp, warned, nread, body, pre, turns, nchunks>>
  /\ UNCHANGED <<process, xfe_writes>>

\* a generator that records the partial reply when it is closed
Abandon_Finalize ==
  /\ pc = "suspended"
  /\ pc' = "closed"
  /\ chat_messages' = AppendAssistant(chat_messages, chunks)
  /\ UNCHANGED <<chat_xfe, chat_vqd, chat_vqd_hash, chat_tokens_count, keywords,
                 model, lines, chunks, err, reqs, resp, yielded, warned, nread,
                 body, pre, turns, nchunks>>
  /\ UNCHANGED <<process, xfe_writes>>

\* the consumer drops the generator at the yield: GeneratorExit is no
\* Exception, the except clause lets it pass
Abandon ==
  /\ pc = "suspended"
  /\ pc' = "closed"
  /\ UNCHANGED <<session, keywords, model, lines, chunks, err, reqs, resp,
                 yielded, warned, nread, body, pre, turns, nchunks>>
  /\ UNCHANGED <<process, xfe_writes>>

Next ==
  \/ \E u \in UserTexts, m \in ModelArgs : SendTurn(u, m)
  \/ XfeCached
  \/ XfeFetch
  \/ VqdCached
  \/ VqdFetch
  \/ Post
  \/ \E c \in Chunks : ReadChunk(c)
  \/ StreamError
  \/ StreamEnd
  \/ Pull
  \/ Abandon

Spec == Init /\ [][Next]_vars

(* ------------- the process: a second instance, the cache file --------- *)

\* a second DuckAI instance of the process runs chat_yield in another
\* thread; of its turn only lines 142-152 touch what the instances share

\* line 142, second instance: if not DuckAI._chat_xfe
Xfe2Check ==
  /\ pc2 = "idle"
  /\ NeedXfe
  /\ pc2' = "checked"
  /\ UNCHANGED <<session, pc, keywords, model, lines, chunks, err, reqs, resp,
                 yielded, warned, nread, body, pre, turns, nchunks, xfe_writes,
                 loaded, answer>>

\* line 143, second instance: the landing page GET goes out
Xfe2Get ==
  /\ pc2 = "checked"
  /\ pc2' = "fetching"
  /\ UNCHANGED <<session, pc, keywords, model, lines, chunks, err, reqs, resp,
                 yielded, warned, nread, body, pre, turns, nchunks, xfe_writes,
                 loaded, answer>>

\* lines 143-152, second instance: the answer arrives; the turn fails, or
\* DuckAI._chat_xfe is assigned and the turn goes on with its own tokens
Xfe2Resp ==
  /\ pc2 = "fetching"
  /\ pc2' = "idle"
  /\ \E o \in Outcomes :
       IF get_url_error(o) # ""
       THEN UNCHANGED <<chat_xfe, xfe_writes>>
       ELSE \E page \in Pages :
              IF ParseXfe(page) = ""
              THEN UNCHANGED <<chat_xfe, xfe_writes>>
              ELSE /\ chat_xfe' = ParseXfe(page)
                   /\ xfe_writes' = xfe_writes + 1
  /\ UNCHANGED <<chat_vqd, chat_vqd_hash, chat_messages, chat_tokens_count, pc,
                 keywords, model, lines, chunks, err, reqs, resp, yielded,
                 warned, nread, body, pre, turns, nchunks, loaded, answer>>

\* cli.chat, the cache written after a turn: the four fields of the client
Cache ==
  [k \in {"vqd", "vqd_hash", "tokens", "messages"} |->
     CASE k = "vqd" -> <<chat_vqd>>
       [] k = "vqd_hash" -> <<chat_vqd_hash>>
       [] k = "tokens" -> <<chat_tokens_count>>
       [] OTHER -> <<chat_messages>>]

\* a lookup under a key the cache does not hold
CacheGet_WrongKey(cache, key, default) ==
  IF key = "messages" THEN default
  ELSE IF key \in DOMAIN cache THEN cache[key][1] ELSE default

\* cache.get(key, default)
CacheGet(cache, key, default) ==
  IF key \in DOMAIN cache THEN cache[key][1] ELSE default

\* cli.chat with --load: client = DuckAI(...), then the four fields are
\* taken from the cache; fresh: the client lives in a new process, where
\* DuckAI._chat_xfe is "" again and no other instance runs
Restore ==
  /\ AtRest
  /\ ~loaded
  /\ loaded' = TRUE
  /\ chat_vqd' = CacheGet(Cache, "vqd", "")
  /\ chat_vqd_hash' = CacheGet(Cache, "vqd_hash", "")
  /\ chat_messages' = CacheGet(Cache, "messages", <<>>)
  /\ chat_tokens_count' = CacheGet(Cache, "tokens", 0)
  /\ \E fresh \in BOOLEAN :
       IF fresh
       THEN chat_xfe' = "" /\ xfe_writes' = 0 /\ pc2' = "idle"
       ELSE UNCHANGED <<chat_xfe, xfe_writes, pc2>>
  /\ pc' = "idle"
  /\ keywords' = ""
  /\ model' = ""
  /\ lines' = <<>>
  /\ chunks' = <<>>
  /\ err' = NoErr
  /\ reqs' = <<>>
  /\ resp' = NoResp
  /\ yielded' = <<>>
  /\ warned' = FALSE
  /\ nread' = 0
  /\ body' = NoBody
  /\ pre' = [messages |-> chat_messages', tokens |-> chat_tokens_count',
             xfe |-> chat_xfe', vqd |-> chat_vqd', hash |-> chat_vqd_hash']
  /\ answer' = NoAnswer
  /\ UNCHANGED <<turns, nchunks>>

\* several instances: the first one with the answers to its chat POSTs
\* left unread (an empty body, or a stream that breaks), the second one in
\* its lines 142-152
NextMulti ==
  \/ \E u \in UserTexts, m \in ModelArgs : SendTurn(u, m)
  \/ XfeCached
  \/ XfeFetch
  \/ VqdCached
  \/ VqdFetch
  \/ Post
  \/ StreamError
  \/ StreamEnd
  \/ Xfe2Check
  \/ Xfe2Get
  \/ Xfe2Resp

SpecMulti == Init /\ [][NextMulti]_vars

\* chunks of one atom
ShortChunks == { c \in Chunks : Len(c) = 1 }

\* cli.chat: one client, its state taken from the cache at some point; the
\* body arrives in chunks of one atom
NextCli ==
  \/ \E u \in UserTexts, m \in ModelArgs : SendTurn(u, m)
  \/ XfeCached
  \/ XfeFetch
  \/ VqdCached
  \/ VqdFetch
  \/ Post
  \/ \E c \in ShortChunks : ReadChunk(c)
  \/ StreamError
  \/ StreamEnd
  \/ Pull
  \/ Abandon
  \/ Restore

SpecCli == Init /\ [][NextCli]_vars

(* ------------- the wire: one body in the chunks of a transport --------- *)

\* atoms in the body of one chat answer
MaxBody == 3

\* the atoms the bodies are made of
WireAtoms == {DELIM, DONE, "{message:Hel}", "{message:lo}"}

\* the bodies of a chat answer
Bodies == UNION { [1..n -> WireAtoms] : n \in 0..MaxBody }

\* the two parts of an atom that a chunk boundary cuts through
FirstPart(a) ==
  CASE a = DELIM -> "da"
    [] a = DONE -> "[DO"
    [] a = "{message:Hel}" -> "{mess"
    [] OTHER -> "{mes"

LastPart(a) ==
  CASE a = DELIM -> "ta:"
    [] a = DONE -> "NE]"
    [] a = "{message:Hel}" -> "age:Hel}"
    [] OTHER -> "sage:lo}"

\* the server fixes the body b of its 200 answer to the chat POST
Answer(b) ==
  /\ pc = "stream"
  /\ ~answer.set
  /\ answer' = [set |-> TRUE, whole |-> b, rest |-> b]
  /\ UNCHANGED <<session, pc, keywords, model, lines, chunks, err, reqs, resp,
                 yielded, warned, nread, body, pre, turns, nchunks, pc2,
                 xfe_writes, loaded>>

\* resp.stream() hands over the next chunk of the body: its next n atoms
\* and, when the chunk ends inside an atom (cut), the first part of the
\* atom after them
ReadWire(n, cut) ==
  /\ pc = "stream"
  /\ answer.set
  /\ n + (IF cut THEN 1 ELSE 0) \in 1..Len(answer.rest)
  /\ cut => answer.rest[n + 1] \in WireAtoms
  /\ LET whole_atoms == SubSeq(answer.rest, 1, n)
         c == IF cut THEN Append(whole_atoms, FirstPart(answer.rest[n + 1]))
              ELSE whole_atoms
         after == SubSeq(answer.rest, n + (IF cut THEN 2 ELSE 1), Len(answer.rest))
     IN /\ answer' = [answer EXCEPT !.rest =
                        IF cut THEN <<LastPart(answer.rest[n + 1])>> \o after
                        ELSE after]
        /\ body' = BodyChunk(body, c)
        /\ Resume(Split(c))
  /\ nchunks' = nchunks + 1
  /\ nread' = nread + 1
  /\ UNCHANGED <<chat_xfe, chat_vqd, chat_vqd_hash, chat_messages, keywords,
                 model, reqs, resp, warned, pre, turns, pc2, xfe_writes, loaded>>

\* resp.stream() is exhausted when the whole body has been handed over
StreamEndWire ==
  /\ answer.set
  /\ answer.rest = <<>>
  /\ StreamEnd

\* the first turn of a client (no token is cached yet): the parsing of a
\* body reads nothing of the session
NextWire ==
  \/ \E u \in UserTexts, m \in ModelArgs : turns = 0 /\ SendTurn(u, m)
  \/ XfeFetch
  \/ VqdFetch
  \/ Post
  \/ \E b \in Bodies : Answer(b)
  \/ \E n \in 0..MaxBody, cut \in BOOLEAN : ReadWire(n, cut)
  \/ StreamError
  \/ StreamEndWire
  \/ Pull
  \/ Abandon

SpecWire == Init /\ [][NextWire]_vars

(* ------------------------------ claims --------------------------------- *)

UserEntry(u) == [role |-> "user", content |-> u]
AssistantEntry(t) == [role |-> "assistant", content |-> t]

IsPrefix(a, b) == Len(a) <= Len(b) /\ SubSeq(b, 1, Len(a)) = a

\* user, assistant, user, assistant, ...
Alternates(h) ==
  \A i \in DOMAIN h : h[i].role = IF i % 2 = 1 THEN "user" ELSE "assistant"

\* the chat POST of the current turn was issued
PostIssued == \E i \in DOMAIN reqs : reqs[i].url = "chat"

\* the last request of the current turn is the chat POST
LastIsPost == reqs # <<>> /\ reqs[Len(reqs)].url = "chat"

\* the header key of the last answer, "" when the answer lacks it
RespHeader(key) ==
  IF key \in DOMAIN resp.headers THEN resp.headers[key] ELSE ""

\* C1: when a turn is drained to completion without error, the history is
\* the one before the turn followed by exactly two entries, the user message
\* and an assistant message whose content is the concatenation of the
\* fragments yielded, and tokenUsage is strictly greater than before.
C1_SuccessfulTurn ==
  pc = "done" =>
    /\ chat_messages =
         pre.messages \o <<UserEntry(keywords), AssistantEntry(Join(yielded))>>
    /\ chat_tokens_count > pre.tokens

\* a second turn with the empty user text, drained after two fragments
C1_Witness ==
  /\ pc = "done"
  /\ keywords = ""
  /\ Len(yielded) = 2
  /\ pre.messages # <<>>
  /\ Len(chat_messages) = Len(pre.messages) + 2

\* a turn with the empty user text and an empty reply: the usage still grows
C1_WitnessEmpty ==
  pc = "done" /\ keywords = "" /\ yielded = <<>> /\ chat_tokens_count = pre.tokens + 1

\* C2 as stated: whatever the error a turn ends with, the history is longer
\* by exactly one entry than before the turn, the user message.
C2_AnyErrorOneEntry ==
  pc = "failed" => chat_messages = pre.messages \o <<UserEntry(keywords)>>

\* C2 amended: a turn that ends with an error at or after the chat POST
\* leaves the history longer by exactly the user message, with no assistant
\* entry; a turn that ends with an error during token acquisition (before
\* the POST is built) leaves the history as it was.
C2_FailedTurn ==
  pc = "failed" =>
    IF PostIssued
    THEN chat_messages = pre.messages \o <<UserEntry(keywords)>>
    ELSE chat_messages = pre.messages

\* a turn that failed in the stream after a fragment had been yielded
C2_Witness ==
  /\ pc = "failed"
  /\ err.at = "json_loads"
  /\ yielded # <<>>
  /\ Len(chat_messages) = Len(pre.messages) + 1

\* C3: when the loop reads a segment equal to [DONE][LIMIT_CONVERSATION], the
\* error that reaches the caller is of kind ConversationLimitException, and
\* no assistant entry is appended.
C3_LimitSentinel ==
  (pc = "failed" /\ err.at = "sentinel") =>
    /\ err.kind = "ConversationLimitException"
    /\ chat_messages = pre.messages \o <<UserEntry(keywords)>>

\* C4: an error event reaches the caller as ConversationLimitException
\* (status 429, conversation-limit type), RatelimitException (status 429,
\* other type) or DuckAIException carrying the type (other status); a
\* malformed event or a stream failure reaches it as DuckAIException.
C4_ErrorEventKinds ==
  pc = "failed" =>
    /\ err.at = "event" =>
         LET x == Events[err.event] IN
         /\ err.kind =
              IF x.status = 429
              THEN IF x.type = "ERR_CONVERSATION_LIMIT"
                   THEN "ConversationLimitException"
                   ELSE "RatelimitException"
              ELSE "DuckAIException"
         /\ x.status # 429 => err.detail = x.type
    /\ err.at \in {"json_loads", "stream"} => err.kind = "DuckAIException"

C6_Post429 ==
  (LastIsPost /\ resp.fail = "" /\ resp.status = 429) =>
    /\ pc = "failed"
    /\ err.kind = "RatelimitException"
    /\ err.cause = ""
    /\ nread = 0
    /\ yielded = <<>>

C6_Witness ==
  LastIsPost /\ resp.fail = "" /\ resp.status = 429 /\ pc = "failed"

\* C7: from the 200 answer of the chat POST on, before any chunk is read and
\* whatever the outcome of the body, sessionToken and sessionHash hold the
\* values of that answer's headers.
C7_RotationKept ==
  (LastIsPost /\ resp.fail = "" /\ resp.status = 200) =>
    /\ chat_vqd = RespHeader("x-vqd-4")
    /\ chat_vqd_hash = RespHeader("x-vqd-hash-1")

\* a turn that failed in the body after the rotation had replaced the token
C7_Witness ==
  /\ pc = "failed"
  /\ nread > 0
  /\ LastIsPost
  /\ resp.status = 200
  /\ pre.vqd = "v0"
  /\ chat_vqd = "v1"
  /\ chat_vqd_hash = "h1"

\* C8: every chat POST carries a non-empty sessionToken and a non-empty
\* sessionHash.
C8_PostTokensNonEmpty ==
  \A i \in DOMAIN reqs :
    reqs[i].url = "chat" => reqs[i].vqd # "" /\ reqs[i].hash # ""

\* C9 as stated: whenever no turn is in flight the history has even length
\* and alternates user, assistant; an odd length occurs only in flight.
C9_EvenAtRest ==
  AtRest => Len(chat_messages) % 2 = 0 /\ Alternates(chat_messages)

\* a turn ended without an assistant entry after its user message was
\* appended: by an error at or after the POST, or dropped by the consumer
Unanswered == pc = "closed" \/ (pc = "failed" /\ PostIssued)

\* C9 amended: the history starts with a user entry and every assistant
\* entry directly follows a user entry.  A turn that ends normally leaves
\* the history ending with its assistant entry, of even length and
\* alternating if it was so before the turn.  A turn that ends with an error
\* at or after the chat POST, or that the consumer abandons, leaves its user
\* message as the trailing entry, so the history at rest then has one entry
\* more than before the turn; while a turn is in flight after the append, the
\* trailing entry is that turn's user message.
C9_HistoryShape ==
  /\ \A i \in DOMAIN chat_messages :
       chat_messages[i].role = "assistant" =>
         i > 1 /\ chat_messages[i - 1].role = "user"
  /\ chat_messages # <<>> => chat_messages[1].role = "user"
  /\ pc = "done" =>
       /\ chat_messages[Len(chat_messages)].role = "assistant"
       /\ Len(chat_messages) = Len(pre.messages) + 2
       /\ (Len(pre.messages) % 2 = 0 /\ Alternates(pre.messages)) =>
            (Len(chat_messages) % 2 = 0 /\ Alternates(chat_messages))
  /\ (pc \in {"stream", "suspended"} \/ Unanswered) =>
       /\ chat_messages[Len(chat_messages)] = UserEntry(keywords)
       /\ Len(chat_messages) = Len(pre.messages) + 1

\* at rest after a failed turn and a drained one: user, user, assistant
C9_Witness ==
  /\ pc = "done"
  /\ Len(chat_messages) = 3
  /\ chat_messages[1].role = "user"
  /\ chat_messages[2].role = "user"
  /\ chat_messages[3].role = "assistant"

\* C10: a turn started with frontEndVersion and sessionToken both non-empty
\* issues no request during token acquisition and exactly one request in
\* all, the chat POST.
C10_CachedTokensOneRequest ==
  (turns > 0 /\ pre.xfe # "" /\ pre.vqd # "") =>
    IF pc \in {"xfe", "vqd", "post"}
    THEN reqs = <<>>
    ELSE Len(reqs) = 1 /\ reqs[1].url = "chat"

\* a second turn that found both cached and was drained
C10_Witness ==
  /\ turns = 2
  /\ pre.xfe # ""
  /\ pre.vqd # ""
  /\ pc = "done"
  /\ Len(reqs) = 1
  /\ reqs[1].url = "chat"

\* a landing page GET goes out in this step, from either instance
LandingGetStep ==
  \/ /\ Len(reqs') = Len(reqs) + 1
     /\ reqs'[Len(reqs')].url = "landing"
  \/ pc2 = "checked" /\ pc2' = "fetching"

\* C11: across any interleaving of turns of several instances of one
\* process, once a landing page fetch has succeeded (DuckAI._chat_xfe is
\* set) no further landing page GET goes out, DuckAI._chat_xfe is not
\* assigned again and keeps its value.
C11_WrittenOnce ==
  [][chat_xfe # "" =>
       /\ ~LandingGetStep
       /\ xfe_writes' = xfe_writes
       /\ chat_xfe' = chat_xfe]_vars

\* the chat POST of the current turn
ChatPost == reqs[Len(reqs)]

\* C12 as stated: the chat POST of the turn that follows the restore
\* carries the restored history followed by the user message, and the
\* restored sessionToken.
C12_RestoredToken ==
  (loaded /\ LastIsPost) =>
    /\ ChatPost.messages = pre.messages \o <<UserEntry(keywords)>>
    /\ ChatPost.vqd = pre.vqd

\* the restore copies the four fields as they are
C12_Copy ==
  (loaded' /\ ~loaded) =>
    /\ chat_vqd' = chat_vqd
    /\ chat_vqd_hash' = chat_vqd_hash
    /\ chat_tokens_count' = chat_tokens_count
    /\ chat_messages' = chat_messages

\* the turn that follows the restore, in terms of the restored state pre
C12_Turn ==
  loaded =>
    /\ LastIsPost =>
         /\ ChatPost.messages = pre.messages \o <<UserEntry(keywords)>>
         /\ pre.vqd # "" => ChatPost.vqd = pre.vqd
         /\ pre.vqd = "" =>
              /\ Len(reqs) >= 2
              /\ reqs[Len(reqs) - 1].url = "status"
    /\ pc = "done" =>
         /\ chat_messages =
              pre.messages \o <<UserEntry(keywords), AssistantEntry(Join(yielded))>>
         /\ chat_tokens_count =
              pre.tokens + Max(Len(keywords) \div 4, 1) + Len(yielded)

\* C12 (amended): a fresh client that takes {sessionToken, sessionHash,
\* tokenUsage, history} of a session at rest holds these four values
\* unchanged; its next turn issues a chat POST whose messages are the
\* restored history followed by the user message; the POST carries the
\* restored sessionToken when that token is non-empty, and a token acquired
\* by a status GET of the same turn otherwise; a turn drained to its end
\* leaves the history and the tokenUsage that the same turn leaves on the
\* session the state was taken from: the restored history, the user
\* message and the joined fragments; the restored count plus
\* max(len(u) div 4, 1) plus one per fragment.
C12_RoundTrip == []C12_Turn /\ [][C12_Copy]_vars

\* a restored session with a non-empty token and history, its next turn
\* drained after at least one fragment
C12_Witness ==
  /\ loaded
  /\ pc = "done"
  /\ pre.vqd # ""
  /\ pre.messages # <<>>
  /\ yielded # <<>>

\* the transport failures whose message carries the timeout indicator
TimeoutMessages == {"operation timed out"}

\* the kind the claim gives to the outcome of the last request ("": the
\* response is returned)
C13_Kind ==
  IF resp.fail # ""
  THEN IF resp.fail \in TimeoutMessages THEN "TimeoutException" ELSE "DuckAIException"
  ELSE IF resp.status = 200 THEN ""
  ELSE IF resp.status \in {202, 301, 400, 403, 418, 429} THEN "RatelimitException"
  ELSE "DuckAIException"

\* C13: for every request (both GETs and the chat POST) status 200 returns
\* the response; a status in {202, 301, 400, 403, 418, 429} raises
\* RatelimitException; any other status raises DuckAIException; a transport
\* failure raises TimeoutException when its message carries the timeout
\* indicator and DuckAIException otherwise.  The failure ends the turn with
\* exactly that kind, and no request is issued twice in a turn.
C13_Classifier ==
  /\ reqs # <<>> =>
       IF C13_Kind = ""
       THEN ~(pc = "failed" /\ err.at = "_get_url")
       ELSE /\ pc = "failed"
            /\ err.at = "_get_url"
            /\ err.kind = C13_Kind
  /\ \A i, j \in DOMAIN reqs : reqs[i].url = reqs[j].url => i = j

\* the chat POST of a second turn meets a transport failure with the
\* timeout indicator
C13_Witness ==
  /\ pc = "failed"
  /\ LastIsPost
  /\ turns = 2
  /\ resp.fail = "operation timed out"
  /\ err.kind = "TimeoutException"

\* the identifiers of the catalog
Catalog == {"gpt-4o-mini", "llama-3.3-70b", "claude-3-haiku", "o3-mini", "mistral-small-3"}

\* the upstream identifier of a catalog identifier
Upstream(m) ==
  CASE m = "gpt-4o-mini" -> "gpt-4o-mini"
    [] m = "llama-3.3-70b" -> "meta-llama/Llama-3.3-70B-Instruct-Turbo"
    [] m = "claude-3-haiku" -> "claude-3-haiku-20240307"
    [] m = "o3-mini" -> "o3-mini"
    [] m = "mistral-small-3" -> "mistralai/Mistral-Small-24B-Instruct-2501"

\* C14: in the step that sends the chat POST, a model identifier outside
\* the catalog gives a warning, the POST carries the upstream id of
\* gpt-4o-mini and the turn goes on as one requested with gpt-4o-mini; a
\* catalog identifier gives no warning and the POST carries its upstream id.
C14_ModelFallback ==
  [][pc = "post" =>
       IF model \in Catalog
       THEN /\ ~warned'
            /\ model' = model
            /\ reqs'[Len(reqs')].model = Upstream(model)
       ELSE /\ warned'
            /\ model' = "gpt-4o-mini"
            /\ reqs'[Len(reqs')].model = Upstream("gpt-4o-mini")]_vars

\* a turn asked with an unknown model that was drained to its end
C14_Witness ==
  /\ pc = "done"
  /\ warned
  /\ model = "gpt-4o-mini"
  /\ ChatPost.model = "gpt-4o-mini"
  /\ yielded # <<>>

\* C15: once the segment [DONE] has been read (the body read so far is
\* message events and then "data:" [DONE], and the generator waits for the
\* stream), nothing that is read later yields a fragment, increments
\* tokenUsage or raises an error out of a segment: the turn can only end.
C15_SentinelEnds ==
  [][(pc = "stream" /\ body.form = "closed") =>
       /\ yielded' = yielded
       /\ chat_tokens_count' = chat_tokens_count
       /\ pc' \in {"stream", "done", "failed"}
       /\ pc' = "failed" => err'.at = "stream"]_vars

\* C16 as stated: the hash the chat POST carries is derived from the current
\* sessionHash and the full header set of that POST.
C16_HashOfPostHeaders ==
  [][pc = "post" =>
       reqs'[Len(reqs')].hash = build_hash(chat_vqd_hash, PostHeaders)]_vars

\* C16 (amended): on every turn that reaches the chat POST, sessionHash is
\* replaced exactly once, after token acquisition and before the POST, by
\* the hash derived from the current sessionHash and the standing headers of
\* the client (without the three headers passed with the POST); the one
\* chat POST of the turn carries that value, and no other step than token
\* acquisition and the POST changes sessionHash.
C16_HashDerivedOnce ==
  [][/\ pc = "post" =>
          /\ Len(reqs') = Len(reqs) + 1
          /\ reqs'[Len(reqs')].url = "chat"
          /\ reqs'[Len(reqs')].hash = build_hash(chat_vqd_hash, ClientHeaders)
          /\ \A i \in DOMAIN reqs : reqs[i].url # "chat"
     /\ pc \notin {"vqd", "post"} => chat_vqd_hash' = chat_vqd_hash]_vars

\* the POST of a second turn that found a cached token and hash
C16_Witness ==
  /\ turns = 2
  /\ LastIsPost
  /\ pre.vqd # ""
  /\ pre.hash # ""
  /\ ChatPost.hash = build_hash(pre.hash, ClientHeaders)

\* tokenUsage of the current turn, as the claim counts it
C17_Count ==
  turns > 0 =>
    chat_tokens_count =
      pre.tokens + (IF PostIssued THEN Max(Len(keywords) \div 4, 1) ELSE 0)
        + Len(yielded)

\* C17: tokenUsage never decreases, and at every point of a turn it is the
\* value before the turn, plus max(len(userText) div 4, 1) once the user
\* message is appended, plus 1 for each fragment yielded; nothing else
\* (events without a message, ignored segments, turns that fail before the
\* append) adds to it.
C17_TokenUsage ==
  []C17_Count /\ [][chat_tokens_count' >= chat_tokens_count]_vars

\* a second turn with a text of 8 characters, drained after two fragments
C17_Witness ==
  /\ turns = 2
  /\ pc = "done"
  /\ keywords = "12345678"
  /\ Len(yielded) = 2
  /\ pre.tokens > 0
  /\ chat_tokens_count = pre.tokens + 4

\* C18: when the chat POST does not return 200 (a transport failure or any
\* other status), sessionToken is as it was before the POST and sessionHash
\* is the value derived for that POST (the one the POST carried), not the
\* value before the turn; after a 200 both fields are what the response
\* headers carry.
C18_FailedPostFrame ==
  [][pc = "post" =>
       IF resp'.fail = "" /\ resp'.status = 200
       THEN /\ chat_vqd' = IF "x-vqd-4" \in DOMAIN resp'.headers
                           THEN resp'.headers["x-vqd-4"] ELSE ""
            /\ chat_vqd_hash' = IF "x-vqd-hash-1" \in DOMAIN resp'.headers
                                THEN resp'.headers["x-vqd-hash-1"] ELSE ""
       ELSE /\ pc' = "failed"
            /\ chat_vqd' = chat_vqd
            /\ chat_vqd_hash' = reqs'[Len(reqs')].hash
            /\ chat_vqd_hash' # chat_vqd_hash
            /\ chat_vqd_hash' = "H(" \o chat_vqd_hash \o ",user-agent;)"]_vars

\* two turns in a row whose POST failed: the hash was derived twice, with no
\* value from the server in between
C18_Witness ==
  /\ turns = 2
  /\ pc = "failed"
  /\ LastIsPost
  /\ Len(reqs) = 1
  /\ pre.hash = "H(h0,user-agent;)"
  /\ chat_vqd = "v0"
  /\ chat_vqd_hash = "H(H(h0,user-agent;),user-agent;)"

\* the turn was abandoned at a yield: the user message is the last entry,
\* the increments and the rotation of the POST are in place
C19_Closed ==
  pc = "closed" =>
    /\ yielded # <<>>
    /\ chat_messages = pre.messages \o <<UserEntry(keywords)>>
    /\ chat_tokens_count =
         pre.tokens + Max(Len(keywords) \div 4, 1) + Len(yielded)
    /\ chat_vqd = RespHeader("x-vqd-4")
    /\ chat_vqd_hash = RespHeader("x-vqd-hash-1")

\* a turn that starts on a history ending with a user entry sends two user
\* entries in a row
C19_NextPost ==
  (LastIsPost /\ pre.messages # <<>>
     /\ pre.messages[Len(pre.messages)].role = "user") =>
    /\ ChatPost.messages = pre.messages \o <<UserEntry(keywords)>>
    /\ ChatPost.messages[Len(ChatPost.messages) - 1].role = "user"
    /\ ChatPost.messages[Len(ChatPost.messages)].role = "user"

\* C19: when the consumer abandons the fragment sequence at a yield, no
\* assistant entry is appended for that turn, then or later: the history
\* keeps the user message as its last entry, the tokenUsage increments and
\* the rotation from the headers of the POST are kept, nothing changes the
\* session until the next turn, and the chat POST of that turn sends a
\* history with two consecutive user entries.
C19_Abandoned ==
  /\ [](C19_Closed /\ C19_NextPost)
  /\ [][pc = "closed" => /\ session' = session
                         /\ pre'.messages = chat_messages]_vars

\* a second turn abandoned after two fragments, on a history that ended
\* with a user entry
C19_Witness ==
  /\ pc = "closed"
  /\ turns = 2
  /\ Len(yielded) = 2
  /\ Len(chat_messages) = 2
  /\ chat_messages[1].role = "user"
  /\ chat_vqd = "v1"

\* lines 188-212 on a body that arrives as one chunk, pulled to the end:
\* the fragments yielded and the exception the loop raised ("": none)
RECURSIVE Drain(_, _)
Drain(ls, out) ==
  LET r == RunLines(ls) IN
  IF r.k = "yield" THEN Drain(r.rest, Append(out, r.msg))
  ELSE [out |-> out, raised |-> IF r.k = "raise" THEN r.kind ELSE ""]

OneChunk(b) == IF b = <<>> THEN [out |-> <<>>, raised |-> ""] ELSE Drain(Split(b), <<>>)

\* the turn has come to its end over the body the server sent: the stream
\* was read to the end, or a segment raised
ParsedToEnd ==
  /\ answer.set
  /\ \/ pc = "done"
     \/ pc = "failed" /\ err.at \in {"sentinel", "json_loads", "event"}

\* C20: whatever the division of the body into chunks, a turn that has come
\* to its end has yielded the fragments, met the outcome (normal end or the
\* error raised) and left the history and the tokenUsage of the turn that
\* gets the same body as a single chunk.
C20_ChunkingIrrelevant ==
  ParsedToEnd =>
    LET one == OneChunk(answer.whole) IN
    /\ yielded = one.out
    /\ err.cause = one.raised
    /\ (pc = "done") = (one.raised = "")
    /\ chat_messages =
         IF one.raised = ""
         THEN pre.messages \o <<UserEntry(keywords), AssistantEntry(Join(one.out))>>
         ELSE pre.messages \o <<UserEntry(keywords)>>
    /\ chat_tokens_count =
         pre.tokens + Max(Len(keywords) \div 4, 1) + Len(one.out)

====
